---- MODULE Spec2Model ----
(***************************************************************************)
(* Federated-learning coordinators of AgisFL.                              *)
(*                                                                         *)
(*   FederatedLearningServer / FederatedLearningNode  (src/fl_ids_core.py) *)
(*   FederatedLearningEngine                (src/backend/core/fl_engine.py)*)
(*                                                                         *)
(* A pandas DataFrame is modelled by what the code reads of it: its number *)
(* of rows, its set of columns and whether its 'label' column holds NaN.   *)
(* Timestamps (datetime.now()) are not modelled.                           *)
(***************************************************************************)
EXTENDS Integers, Sequences, FiniteSets, TLC

\* ------------------------------------------------------------------ bounds
\* cap on the rows a node's local_data may hold
MaxData == 15
\* cap on FederatedLearningServer.round_number
MaxRounds == 2
\* cap on the per-node predictions put to one ensemble vote
MaxVoters == 4
\* cap on the updates put to one aggregation
MaxUpdates == 2

\* --------------------------------------------------------- program constants
\* local_train: `if len(self.local_data) < 10`
MinSamples == 10
\* trim_mean_aggregation: trim_ratio=0.2, kept as the fraction TrimNum / TrimDen
TrimNum == 1
TrimDen == 5


\* ------------------------------------------------------------------- inputs
\* the node objects a caller constructs: FederatedLearningNode(node_id, model_type);
\* n1 and n3 carry the same node_id
NodeObjs == {"n1", "n2", "n3"}
NodeId(o) == IF o = "n2" THEN "b" ELSE "a"
ModelTypeOf(o) == IF o = "n3" THEN "isolation_forest" ELSE "random_forest"

\* the batches a caller passes to add_training_data: rows and columns
\* (a labelled frame of two features, an unlabelled frame of three)
BatchRows == {5, 10}
BatchCols == { {"f1", "f2", "label"}, {"f1", "f2", "f3"} }

VARIABLES
    \* FederatedLearningNode objects: obj -> fields
    node,
    \* FederatedLearningServer fields
    nodes, global_model_weights, round_number, training_history,
    \* the last start_training_round call: what it returned and the node_weights
    \* it passed to _aggregate_weights (op = "none": the last call was another one)
    last

VARIABLES
    \* a start_training_round call in progress on the monitoring thread of
    \* app.py: its position, its loop index and its local node_weights
    pc, idx, node_weights,
    \* what the last get_fl_nodes request read
    observed

VARIABLES
    \* FederatedLearningEngine fields (training_history is engine_history here)
    clients, is_ready, is_training, current_strategy, current_round,
    global_accuracy, global_model, engine_history,
    \* the _training_loop tasks created, each with its argument and position
    tasks,
    \* stop_training has been called / called and no start_training took effect since
    ever_stopped, stopped,
    \* the last engine call made and what it returned
    engine_last

VARIABLES
    \* the argument a pure operation is applied to, and the last prediction or
    \* aggregation call made with what it returned
    inputs, result

serverVars == <<node, nodes, global_model_weights, round_number, training_history, last>>
threadVars == <<pc, idx, node_weights, observed>>
engineFields == <<clients, is_ready, is_training, current_strategy, current_round,
                  global_accuracy, global_model, engine_history>>
engineVars == <<engineFields, tasks, ever_stopped, stopped, engine_last>>

callVars == <<inputs, result>>

vars == <<serverVars, threadVars, engineVars, callVars>>

\* Python's empty dict {}
EmptyDict == [k \in {} |-> 0]

NoRound == [op |-> "none", ret |-> "None", passed |-> <<>>]
\* no prediction or aggregation call was the last call
NoResult == [op |-> "none"]
NoInput == [kind |-> "none"]
CallInit == inputs = NoInput /\ result = NoResult

\* ------------------------------------------------------ FederatedLearningNode
\* FederatedLearningNode.__init__
NewNode(o) ==
    [node_id |-> NodeId(o), model_type |-> ModelTypeOf(o),
     is_trained |-> FALSE, training_history |-> <<>>,
     rows |-> 0, cols |-> {}, label_nan |-> FALSE,
     \* the columns self.scaler was last fitted on and the number of features
     \* self.model was last fitted on
     scaler_cols |-> {}, model_features |-> 0]

\* FederatedLearningNode.add_training_data: pd.concat([local_data, data]);
\* the columns are the union, a column one frame lacks is NaN in its rows
ConcatData(n, brows, bcols) ==
    LET cols2 == n.cols \cup bcols
    IN [n EXCEPT !.rows = n.rows + brows,
                 !.cols = cols2,
                 !.label_nan = n.label_nan
                     \/ ("label" \in cols2
                         /\ ((n.rows > 0 /\ "label" \notin n.cols)
                             \/ (brows > 0 /\ "label" \notin bcols)))]

\* local_train: feature_columns
FeatureColumns(n) == n.cols \ {"label", "attack_type", "timestamp"}

\* local_train: the fit inside `try` raises (sklearn rejects NaN in y) when a
\* supervised model is given the 'label' column and that column holds NaN
FitRaises(n) ==
    /\ n.model_type # "isolation_forest"
    /\ "label" \in n.cols
    /\ n.label_nan

\* hasattr(self.model, 'feature_importances_'): the forests have it, the
\* IsolationForest has not; no model of _initialize_model has coef_ or tree_
HasFeatureImportances(n) == n.model_type # "isolation_forest"

\* self.model.feature_importances_ after a fit on k features: k values; the
\* values are the fit's, the coordinator reads none of them: kept uniform, in
\* units of 1/k
Importances(k) == [i \in 1..k |-> 1]

\* FederatedLearningNode._get_model_weights
GetModelWeights(n) ==
    IF HasFeatureImportances(n)
    THEN [feature_importances |-> Importances(Cardinality(FeatureColumns(n))),
          training_samples |-> n.rows, node_id |-> n.node_id, model_type |-> n.model_type]
    ELSE [training_samples |-> n.rows, node_id |-> n.node_id, model_type |-> n.model_type]

\* local_train: `X_scaled = self.scaler.fit_transform(X)` refits the scaler;
\* on the supervised path it runs before `self.model.fit(X_scaled, y)`
ScalerFitted(n) == [n EXCEPT !.scaler_cols = FeatureColumns(n)]

\* a fit that sets no is_trained
Trained_NotFlagged(n) ==
    [ScalerFitted(n) EXCEPT !.model_features = Cardinality(FeatureColumns(n)),
                            !.training_history = Append(@,
                                [samples_used |-> n.rows,
                                 features |-> Cardinality(FeatureColumns(n))])]

\* local_train after a fit that did not raise: the model is fitted on the
\* feature columns, is_trained is set and one training_info is appended
Trained(n) ==
    [ScalerFitted(n) EXCEPT !.model_features = Cardinality(FeatureColumns(n)),
                            !.is_trained = TRUE,
                            !.training_history = Append(@,
                                [samples_used |-> n.rows,
                                 features |-> Cardinality(FeatureColumns(n))])]

\* local_train that also refuses a dataset of exactly the minimum size
LocalTrain_ThresholdInclusive(n) ==
    IF n.rows <= MinSamples
    THEN [node |-> n, none |-> TRUE, weights |-> EmptyDict]
    ELSE IF FitRaises(n)
    THEN [node |-> ScalerFitted(n), none |-> TRUE, weights |-> EmptyDict]
    ELSE [node |-> Trained(n), none |-> FALSE, weights |-> GetModelWeights(Trained(n))]

\* local_train without the minimum-sample check
LocalTrain_NoThreshold(n) ==
    IF FitRaises(n)
    THEN [node |-> ScalerFitted(n), none |-> TRUE, weights |-> EmptyDict]
    ELSE [node |-> Trained(n), none |-> FALSE, weights |-> GetModelWeights(Trained(n))]

\* the outcome of FederatedLearningNode.local_train: the node after the call
\* and the value returned (None, or the weights)
LocalTrain(n) ==
    IF n.rows < MinSamples
    THEN [node |-> n, none |-> TRUE, weights |-> EmptyDict]
    ELSE IF FitRaises(n)
    THEN [node |-> ScalerFitted(n), none |-> TRUE, weights |-> EmptyDict]
    ELSE [node |-> Trained(n), none |-> FALSE, weights |-> GetModelWeights(Trained(n))]

\* ---------------------------------------------------- FederatedLearningServer
\* position of a node_id in the registry (a dict keeps insertion order), 0 if absent
RECURSIVE IndexOfId(_, _, _)
IndexOfId(reg, id, i) ==
    IF i > Len(reg) THEN 0
    ELSE IF reg[i].id = id THEN i
    ELSE IndexOfId(reg, id, i + 1)

\* self.nodes[node.node_id] = node
DictSet(reg, id, o) ==
    LET i == IndexOfId(reg, id, 1)
    IN IF i = 0 THEN Append(reg, [id |-> id, obj |-> o])
       ELSE [reg EXCEPT ![i] = [id |-> id, obj |-> o]]

\* FederatedLearningServer.register_node
register_node(o) ==
    /\ pc = "idle"
    /\ nodes' = DictSet(nodes, node[o].node_id, o)
    /\ last' = NoRound
    /\ UNCHANGED <<node, global_model_weights, round_number, training_history>>
    /\ UNCHANGED <<threadVars, engineVars>>
    /\ result' = NoResult /\ UNCHANGED inputs

\* FederatedLearningNode.add_training_data, on a node object the caller holds
add_training_data(o, brows, bcols) ==
    /\ pc = "idle"
    /\ node[o].rows + brows <= MaxData
    /\ node' = [node EXCEPT ![o] = ConcatData(@, brows, bcols)]
    /\ last' = NoRound
    /\ UNCHANGED <<nodes, global_model_weights, round_number, training_history>>
    /\ UNCHANGED <<threadVars, engineVars>>
    /\ result' = NoResult /\ UNCHANGED inputs

RECURSIVE SumSamples(_, _)
SumSamples(ws, i) ==
    IF i > Len(ws) THEN 0 ELSE ws[i].training_samples + SumSamples(ws, i + 1)

\* sum over the updates of importances[j] * training_samples
RECURSIVE WeightedSum(_, _, _)
WeightedSum(ws, j, i) ==
    IF i > Len(ws) THEN 0
    ELSE ws[i].feature_importances[j] * ws[i].training_samples + WeightedSum(ws, j, i + 1)

AllHave(ws, key) == \A i \in 1..Len(ws) : key \in DOMAIN ws[i]

\* np.sum(weighted_importances, axis=0) raises ValueError when the arrays
\* have different lengths
AggregateRaises(ws) ==
    /\ AllHave(ws, "feature_importances")
    /\ \E i, j \in 1..Len(ws) :
          Len(ws[i].feature_importances) # Len(ws[j].feature_importances)

\* the aggregate stamped with the round number as it was before the round
AggregateWeights_RoundBefore(ws, rn) ==
    IF ws = <<>> THEN EmptyDict
    ELSE [round |-> rn - 1, total_samples |-> SumSamples(ws, 1),
          participating_nodes |-> Len(ws)]

\* FederatedLearningServer._aggregate_weights; a weighted average is kept as
\* the exact fraction num/den, den = total_samples
AggregateWeights(ws, rn) ==
    IF ws = <<>> THEN EmptyDict
    ELSE LET total == SumSamples(ws, 1)
             meta == [round |-> rn, total_samples |-> total,
                      participating_nodes |-> Len(ws)]
         IN IF AllHave(ws, "feature_importances")
            THEN [feature_importances |->
                      [j \in 1..Len(ws[1].feature_importances) |-> WeightedSum(ws, j, 1)],
                  round |-> rn, total_samples |-> total,
                  participating_nodes |-> Len(ws)]
            ELSE meta

\* the loop of start_training_round over self.nodes.items(), from entry i:
\* the node objects after it and the node_weights collected
RECURSIVE TrainAll(_, _, _)
TrainAll(reg, objs, i) ==
    IF i > Len(reg) THEN [objs |-> objs, weights |-> <<>>]
    ELSE LET o == reg[i].obj
             t == LocalTrain(objs[o])
             rest == TrainAll(reg, [objs EXCEPT ![o] = t.node], i + 1)
         IN IF t.none THEN rest
            ELSE [objs |-> rest.objs, weights |-> <<t.weights>> \o rest.weights]

\* rows held by the registered nodes, trained this round or not
RECURSIVE RegisteredRows(_, _, _)
RegisteredRows(reg, objs, i) ==
    IF i > Len(reg) THEN 0 ELSE objs[reg[i].obj].rows + RegisteredRows(reg, objs, i + 1)

\* round_info counting every registered node, failed ones included
RoundInfo_AllRegistered(rn, ws) ==
    [round |-> rn, participating_nodes |-> Len(nodes),
     total_samples |-> RegisteredRows(nodes, node, 1)]

\* round_info
RoundInfo(rn, ws) ==
    [round |-> rn, participating_nodes |-> Len(ws), total_samples |-> SumSamples(ws, 1)]

\* the global model assigned whether or not any update came back
GlobalAfterRound_Always(gmw, ws, rn) == AggregateWeights(ws, rn)

\* start_training_round after the loop: `if node_weights:` assigns
\* global_model_weights, appends round_info and returns True, else returns False
GlobalAfterRound(gmw, ws, rn) == IF ws # <<>> THEN AggregateWeights(ws, rn) ELSE gmw
\* a round record appended whether or not any update came back
HistoryAfterRound_AlwaysAppend(hist, ws, rn) == Append(hist, RoundInfo(rn, ws))
HistoryAfterRound(hist, ws, rn) == IF ws # <<>> THEN Append(hist, RoundInfo(rn, ws)) ELSE hist
ReturnOfRound(ws) == IF ws # <<>> THEN "True" ELSE "False"

\* self.round_number += 1
RoundNumberAfterBegin(rn) == rn + 1

\* FederatedLearningServer.start_training_round, a whole call by one caller;
\* an exception of _aggregate_weights leaves the call before any assignment
start_training_round ==
    /\ pc = "idle"
    /\ round_number < MaxRounds
    /\ UNCHANGED <<threadVars, engineVars>>
    /\ result' = NoResult /\ UNCHANGED inputs
    /\ LET rn == RoundNumberAfterBegin(round_number)
           t == TrainAll(nodes, node, 1)
           ws == t.weights
       IN /\ round_number' = rn
          /\ node' = t.objs
          /\ UNCHANGED nodes
          /\ IF ws # <<>> /\ AggregateRaises(ws)
             THEN /\ UNCHANGED <<global_model_weights, training_history>>
                  /\ last' = [op |-> "start_training_round", ret |-> "raised", passed |-> ws]
             ELSE /\ global_model_weights' = GlobalAfterRound(global_model_weights, ws, rn)
                  /\ training_history' = HistoryAfterRound(training_history, ws, rn)
                  /\ last' = [op |-> "start_training_round", ret |-> ReturnOfRound(ws),
                              passed |-> ws]

\* ------------------------------------------------------------- predictions
\* the frames passed to predict, get_global_predictions and
\* evaluate_global_model: rows and columns; the labels a model puts out
DataRows == {1, 2}
DataCols == { {"f1", "f2"}, {"f1", "f2", "f3"} }
Labels == {0, 1}

\* predict: feature_columns of the frame passed
DataFeatures(dcols) == dcols \ {"label", "attack_type", "timestamp"}

\* predict: `self.scaler.transform(X)` raises when X has not the columns the
\* scaler was fitted on, `self.model.predict(X_scaled)` when X_scaled has not
\* the number of features the model was fitted on; `except: return []`
PredictRaises(n, dcols) ==
    \/ DataFeatures(dcols) # n.scaler_cols
    \/ Cardinality(DataFeatures(dcols)) # n.model_features

\* what the models of the registered nodes put out for a frame, entry by
\* entry; the entry of a node whose model is not asked, or whose predict
\* raises, is the zero list
ModelOutputs(reg, objs, drows, dcols) ==
    {outs \in [1..Len(reg) -> [1..drows -> Labels]] :
        \A i \in 1..Len(reg) :
            (~objs[reg[i].obj].is_trained \/ PredictRaises(objs[reg[i].obj], dcols))
                => outs[i] = [j \in 1..drows |-> 0]}

\* predict that does not test is_trained
NodePredict_NoTrainedCheck(n, dcols, out) ==
    IF PredictRaises(n, dcols) /\ n.is_trained THEN <<>> ELSE out

\* FederatedLearningNode.predict, `out` being what the fitted model puts out
\* for the rows of the frame: the list returned
NodePredict(n, dcols, out) ==
    IF ~n.is_trained THEN <<>>
    ELSE IF PredictRaises(n, dcols) THEN <<>>
    ELSE out

\* FederatedLearningNode.predict on a node object the caller holds
predict(o, drows, dcols) ==
    /\ pc = "idle"
    /\ \E out \in {outs[1] : outs \in ModelOutputs(<<[obj |-> o]>>, node, drows, dcols)} :
          result' = [op |-> "predict", obj |-> o, rows |-> drows, cols |-> dcols,
                     ret |-> NodePredict(node[o], dcols, out)]
    /\ last' = NoRound
    /\ UNCHANGED <<node, nodes, global_model_weights, round_number, training_history>>
    /\ UNCHANGED <<threadVars, engineVars, inputs>>

\* every registered node's prediction is taken as a vote
Votes_All(n, dcols, out) == TRUE

\* get_global_predictions: `if node.is_trained:` ... `if node_predictions:`
Votes(n, dcols, out) == n.is_trained /\ NodePredict(n, dcols, out) # <<>>

\* get_global_predictions: the loop over self.nodes.items(), from entry i;
\* outs[i] is what the model of entry i puts out
RECURSIVE CollectPredictions(_, _, _, _, _)
CollectPredictions(reg, objs, dcols, outs, i) ==
    IF i > Len(reg) THEN <<>>
    ELSE LET n == objs[reg[i].obj]
             rest == CollectPredictions(reg, objs, dcols, outs, i + 1)
         IN IF Votes(n, dcols, outs[i])
            THEN <<[node_id |-> reg[i].id, labels |-> NodePredict(n, dcols, outs[i])]>> \o rest
            ELSE rest

RECURSIVE SumVotes(_, _, _)
SumVotes(predictions, j, i) ==
    IF i > Len(predictions) THEN 0
    ELSE predictions[i].labels[j] + SumVotes(predictions, j, i + 1)

\* a tie counts as a majority
MajorityVote_TieIsOne(predictions, j) ==
    IF 2 * SumVotes(predictions, j, 1) >= Len(predictions) THEN 1 ELSE 0

\* majority_vote = 1 if np.sum(votes) > len(votes) / 2 else 0
MajorityVote(predictions, j) ==
    IF 2 * SumVotes(predictions, j, 1) > Len(predictions) THEN 1 ELSE 0

\* get_global_predictions after the loop: [] without predictions, else one
\* vote per column of predictions_array
EnsembleVote(predictions) ==
    IF predictions = <<>> THEN <<>>
    ELSE [j \in 1..Len(predictions[1].labels) |-> MajorityVote(predictions, j)]

\* the predictions lists the ensemble vote is put to: one list of labels per
\* contributing node, all for the same rows
VoteInputs ==
    UNION { { [kind |-> "predictions",
               predictions |-> [i \in 1..n |-> [node_id |-> i, labels |-> m[i]]]]
              : m \in [1..n -> [1..r -> Labels]] }
            : n \in 1..MaxVoters, r \in DataRows }

\* get_global_predictions from `predictions_array = np.array(predictions)` on
ensemble_vote ==
    /\ inputs.kind = "predictions"
    /\ result' = [op |-> "ensemble_vote", ret |-> EnsembleVote(inputs.predictions)]
    /\ UNCHANGED <<serverVars, threadVars, engineVars, inputs>>

\* accuracy_score(test_labels, predictions): the fraction of equal positions
Accuracy(test_labels, predictions) ==
    [num |-> Cardinality({j \in 1..Len(predictions) : predictions[j] = test_labels[j]}),
     den |-> Len(predictions)]

\* evaluate_global_model after get_global_predictions (of the metrics the
\* accuracy and the round are kept)
Evaluate(predictions, test_labels, rn) ==
    IF predictions = <<>> THEN EmptyDict
    ELSE [accuracy |-> Accuracy(test_labels, predictions), round |-> rn]

\* FederatedLearningServer.get_global_predictions
get_global_predictions(drows, dcols) ==
    /\ pc = "idle"
    /\ \E outs \in ModelOutputs(nodes, node, drows, dcols) :
          LET predictions == CollectPredictions(nodes, node, dcols, outs, 1)
          IN result' = [op |-> "get_global_predictions", rows |-> drows, cols |-> dcols,
                        votes |-> predictions, ret |-> EnsembleVote(predictions)]
    /\ last' = NoRound
    /\ UNCHANGED <<node, nodes, global_model_weights, round_number, training_history>>
    /\ UNCHANGED <<threadVars, engineVars, inputs>>

\* FederatedLearningServer.evaluate_global_model
evaluate_global_model(drows, dcols) ==
    /\ pc = "idle"
    /\ \E outs \in ModelOutputs(nodes, node, drows, dcols), test_labels \in [1..drows -> Labels] :
          LET predictions == CollectPredictions(nodes, node, dcols, outs, 1)
          IN result' = [op |-> "evaluate_global_model", rows |-> drows, cols |-> dcols,
                        votes |-> predictions,
                        ret |-> Evaluate(EnsembleVote(predictions), test_labels, round_number)]
    /\ last' = NoRound
    /\ UNCHANGED <<node, nodes, global_model_weights, round_number, training_history>>
    /\ UNCHANGED <<threadVars, engineVars, inputs>>

\* FederatedLearningServer.__init__, the node objects constructed
ServerInit ==
    /\ node = [o \in NodeObjs |-> NewNode(o)]
    /\ nodes = <<>>
    /\ global_model_weights = EmptyDict
    /\ round_number = 0
    /\ training_history = <<>>
    /\ last = NoRound

ThreadInit ==
    /\ pc = "idle"
    /\ idx = 0
    /\ node_weights = <<>>
    /\ observed = [federated_rounds |-> 0, global_model_info |-> EmptyDict]

\* ------------------------------------- start_training_round, statement by statement
\* app.py runs start_training_round on its monitoring thread while Flask
\* request handlers read fl_server; there is no lock, so a read may fall
\* between any two statements of the call.

\* the loop is left one entry early
LoopDone_Early(i, reg) == i >= Len(reg)

\* `for node_id, node in self.nodes.items()` has gone through every entry
LoopDone(i, reg) == i > Len(reg)

\* self.round_number += 1; node_weights = []
round_begin ==
    /\ pc = "idle"
    /\ round_number < MaxRounds
    /\ round_number' = RoundNumberAfterBegin(round_number)
    /\ node_weights' = <<>>
    /\ idx' = 1
    /\ pc' = "train"
    /\ last' = NoRound
    /\ UNCHANGED <<node, nodes, global_model_weights, training_history, observed>>
    /\ UNCHANGED <<engineVars, callVars>>

\* one iteration of `for node_id, node in self.nodes.items()`
round_local_train ==
    /\ pc = "train"
    /\ ~LoopDone(idx, nodes)
    /\ LET o == nodes[idx].obj
           t == LocalTrain(node[o])
       IN /\ node' = [node EXCEPT ![o] = t.node]
          /\ node_weights' = IF t.none THEN node_weights ELSE Append(node_weights, t.weights)
    /\ idx' = idx + 1
    /\ UNCHANGED <<pc, nodes, global_model_weights, round_number, training_history, last,
                   observed>>
    /\ UNCHANGED <<engineVars, callVars>>

\* `if node_weights: self.global_model_weights = self._aggregate_weights(...)`,
\* else `return False`
round_aggregate ==
    /\ pc = "train"
    /\ LoopDone(idx, nodes)
    /\ IF node_weights = <<>>
       THEN /\ pc' = "idle"
            /\ last' = [op |-> "start_training_round", ret |-> ReturnOfRound(node_weights),
                        passed |-> node_weights]
            /\ UNCHANGED global_model_weights
       ELSE IF AggregateRaises(node_weights)
       THEN /\ pc' = "idle"
            /\ last' = [op |-> "start_training_round", ret |-> "raised",
                        passed |-> node_weights]
            /\ UNCHANGED global_model_weights
       ELSE /\ pc' = "record"
            /\ global_model_weights' =
                   GlobalAfterRound(global_model_weights, node_weights, round_number)
            /\ UNCHANGED last
    /\ UNCHANGED <<node, nodes, round_number, training_history, idx, node_weights, observed>>
    /\ UNCHANGED <<engineVars, callVars>>

\* self.training_history.append(round_info); return True
round_record ==
    /\ pc = "record"
    /\ training_history' = HistoryAfterRound(training_history, node_weights, round_number)
    /\ last' = [op |-> "start_training_round", ret |-> ReturnOfRound(node_weights),
                passed |-> node_weights]
    /\ pc' = "idle"
    /\ UNCHANGED <<node, nodes, global_model_weights, round_number, idx, node_weights,
                   observed>>
    /\ UNCHANGED <<engineVars, callVars>>

\* app.py get_fl_nodes: reads fl_server.round_number and fl_server.global_model_weights
get_fl_nodes ==
    /\ observed' = [federated_rounds |-> round_number,
                    global_model_info |-> global_model_weights]
    /\ UNCHANGED <<serverVars, pc, idx, node_weights>>
    /\ UNCHANGED <<engineVars, callVars>>

\* =================================================== FederatedLearningEngine
\* FedProxStrategy.__init__: mu = 0.1, kept as the fraction MuNum / MuDen
MuNum == 1
MuDen == 10
\* initialize: make_classification(n_samples=10000) split over num_clients=5
NumClients == 5
SamplesPerClient == 2000
\* _training_loop: size=min(3, len(self.clients))
RoundClients == 3

\* cap on the _training_loop tasks created
MaxTasks == 2
\* the `rounds` arguments passed to start_training
RoundsArgs == {1, 2}
\* the names passed to set_strategy: a registered one other than the initial
\* strategy, and one that is not registered
StrategyNames == {"FedProx", "Krum"}
\* what FederatedClient.train reports for client c: the value of the model
\* parameter after local training and the accuracy (in percent); the values
\* are the training's, the engine only passes them on: one client stands out,
\* so that the result of a round depends on the selection and on the strategy
TrainOutcome(c) == [p |-> IF c = 1 THEN 10 ELSE 0, acc |-> 80]
\* IDSModel state_dict keys (one stands for all: every client has the same model)
ParamKeys == {"w"}

\* self.strategies
Strategies == {"FedAvg", "FedProx"}

Min(a, b) == IF a < b THEN a ELSE b

RECURSIVE SumNumSamples(_, _)
SumNumSamples(us, i) ==
    IF i > Len(us) THEN 0 ELSE us[i].num_samples + SumNumSamples(us, i + 1)

\* every update counted with the weight of the first
RECURSIVE WeightedParam_FirstWeight(_, _, _)
WeightedParam_FirstWeight(us, key, i) ==
    IF i > Len(us) THEN 0
    ELSE us[i].parameters[key] * us[1].num_samples
            + WeightedParam_FirstWeight(us, key, i + 1)

\* sum over the updates of parameters[key] * num_samples
RECURSIVE WeightedParam(_, _, _)
WeightedParam(us, key, i) ==
    IF i > Len(us) THEN 0
    ELSE us[i].parameters[key] * us[i].num_samples + WeightedParam(us, key, i + 1)

RECURSIVE SumAccuracy(_, _)
SumAccuracy(us, i) ==
    IF i > Len(us) THEN 0 ELSE us[i].accuracy + SumAccuracy(us, i + 1)

\* FedAvgStrategy.aggregate without `if not client_updates: return {}`, the
\* keys taken from the first update if there is one
FedAvgAggregate_NoEmptyCheck(us) ==
    [parameters |-> [key \in (IF us = <<>> THEN {} ELSE DOMAIN us[1].parameters) |->
                        [num |-> WeightedParam(us, key, 1), den |-> SumNumSamples(us, 1)]],
     num_samples |-> SumNumSamples(us, 1),
     accuracy |-> [num |-> SumAccuracy(us, 1), den |-> Len(us)]]

\* FedAvgStrategy.aggregate; every quotient is kept as the exact fraction num/den
FedAvgAggregate(us) ==
    IF us = <<>> THEN EmptyDict
    ELSE LET total == SumNumSamples(us, 1)
         IN [parameters |-> [key \in DOMAIN us[1].parameters |->
                                [num |-> WeightedParam(us, key, 1), den |-> total]],
             num_samples |-> total,
             accuracy |-> [num |-> SumAccuracy(us, 1), den |-> Len(us)]]

\* the proximal term left out: the weighted average alone
FedProxWith_NoProximal(us, mu) == FedAvgAggregate(us)

\* FedProxStrategy(mu).aggregate: weighted_sum * (1 - mu) + first * mu, with
\* mu the fraction mu.num / mu.den
FedProxWith(us, mu) ==
    IF us = <<>> THEN EmptyDict
    ELSE LET total == SumNumSamples(us, 1)
         IN [parameters |-> [key \in DOMAIN us[1].parameters |->
                                [num |-> WeightedParam(us, key, 1) * (mu.den - mu.num)
                                           + us[1].parameters[key] * mu.num * total,
                                 den |-> total * mu.den]],
             num_samples |-> total,
             accuracy |-> [num |-> SumAccuracy(us, 1), den |-> Len(us)]]

\* the strategy the engine registers: FedProxStrategy() with mu = 0.1
FedProxAggregate(us) == FedProxWith(us, [num |-> MuNum, den |-> MuDen])

\* the round aggregates with FedAvg whatever strategy is active
StrategyAggregate_AlwaysFedAvg(name, us) == FedAvgAggregate(us)

\* self.strategies[self.current_strategy].aggregate(client_updates)
StrategyAggregate(name, us) ==
    IF name = "FedProx" THEN FedProxAggregate(us) ELSE FedAvgAggregate(us)

\* FederatedClient.train: the update of client c
ClientUpdate(c, outcome) ==
    [client_id |-> c, parameters |-> [key \in ParamKeys |-> outcome.p],
     num_samples |-> SamplesPerClient, accuracy |-> outcome.acc]

\* the clients of a selection, in increasing order
RECURSIVE SeqOfSet(_)
SeqOfSet(S) ==
    IF S = {} THEN <<>>
    ELSE LET c == CHOOSE x \in S : \A y \in S : x <= y
         IN <<c>> \o SeqOfSet(S \ {c})

\* np.random.choice(self.clients, size=min(3, len(self.clients)), replace=False)
Selections ==
    {S \in SUBSET (1..clients) : Cardinality(S) = Min(RoundClients, clients)}

NoCall == [op |-> "none", arg |-> "", ret |-> "None"]

\* FederatedLearningEngine.__init__
EngineInit ==
    /\ clients = 0
    /\ is_ready = FALSE
    /\ is_training = FALSE
    /\ current_strategy = "FedAvg"
    /\ current_round = 0
    /\ global_accuracy = [num |-> 0, den |-> 1]
    /\ global_model = [key \in ParamKeys |-> [num |-> 0, den |-> 1]]
    /\ engine_history = <<>>
    /\ tasks = <<>>
    /\ ever_stopped = FALSE
    /\ stopped = FALSE
    /\ engine_last = NoCall

\* FederatedLearningEngine.initialize (main.py calls it once, at startup)
initialize ==
    /\ ~is_ready
    /\ clients' = clients + NumClients
    /\ is_ready' = TRUE
    /\ engine_last' = NoCall
    /\ UNCHANGED <<is_training, current_strategy, current_round, global_accuracy,
                   global_model, engine_history, tasks, ever_stopped, stopped>>
    /\ UNCHANGED <<serverVars, threadVars, callVars>>

\* the tasks the event loop holds: created and not yet run, or in
\* `await asyncio.sleep(2)`; `turn` orders them by the time they were created
\* or went to sleep
Waiting == {t \in 1..Len(tasks) : tasks[t].state \in {"created", "sleeping"}}

\* start_training: `if self.is_training or not self.is_ready: return`
StartIgnored == is_training \/ ~is_ready

\* FederatedLearningEngine.start_training
start_training(rounds) ==
    /\ IF StartIgnored
       THEN UNCHANGED <<is_training, tasks, stopped>>
       ELSE /\ Len(tasks) < MaxTasks
            /\ is_training' = TRUE
            /\ tasks' = Append(tasks, [rounds |-> rounds, round_num |-> 0,
                                       state |-> "created",
                                       turn |-> Cardinality(Waiting) + 1])
            /\ stopped' = FALSE
    /\ engine_last' = NoCall
    /\ UNCHANGED <<clients, is_ready, current_strategy, current_round, global_accuracy,
                   global_model, engine_history, ever_stopped>>
    /\ UNCHANGED <<serverVars, threadVars, callVars>>

\* FederatedLearningEngine.stop_training
stop_training ==
    /\ is_training' = FALSE
    /\ ever_stopped' = TRUE
    /\ stopped' = TRUE
    /\ engine_last' = NoCall
    /\ UNCHANGED <<clients, is_ready, current_strategy, current_round, global_accuracy,
                   global_model, engine_history, tasks>>
    /\ UNCHANGED <<serverVars, threadVars, callVars>>

\* set_strategy with a name that is not registered still stores it
StrategyAfterSet_NoCheck(cur, name) == name

\* set_strategy: `if strategy_name in self.strategies: self.current_strategy = ...`
StrategyAfterSet(cur, name) == IF name \in Strategies THEN name ELSE cur

\* FederatedLearningEngine.set_strategy
set_strategy(name) ==
    /\ current_strategy' = StrategyAfterSet(current_strategy, name)
    /\ engine_last' = [op |-> "set_strategy", arg |-> name,
                       ret |-> IF name \in Strategies THEN "None" ELSE "ValueError"]
    /\ UNCHANGED <<clients, is_ready, is_training, current_round, global_accuracy,
                   global_model, engine_history, tasks, ever_stopped, stopped>>
    /\ UNCHANGED <<serverVars, threadVars, callVars>>

\* a task the event loop can resume next. create_task puts the first step of
\* a task on the ready queue, which is served in order: a created task runs
\* before the tasks created after it. The sleeps all last 2 seconds: a
\* sleeping task wakes before every task that was created or went to sleep
\* after it, unless that one is only created (its first step is already on
\* the queue when the timer runs out)
Resumable(t) ==
    /\ t \in Waiting
    /\ \A u \in Waiting :
          tasks[u].turn < tasks[t].turn =>
             (tasks[t].state = "created" /\ tasks[u].state = "sleeping")

\* the tasks after task t has run a step and is left in `state` (sleeping: it
\* goes behind the others; done: it leaves them)
TasksAfterStep(t, round_num, state) ==
    [u \in 1..Len(tasks) |->
        IF u = t
        THEN [tasks[t] EXCEPT !.round_num = round_num, !.state = state,
                              !.turn = IF state = "done" THEN 0 ELSE Cardinality(Waiting)]
        ELSE IF u \in Waiting /\ tasks[u].turn > tasks[t].turn
             THEN [tasks[u] EXCEPT !.turn = @ - 1]
             ELSE tasks[u]]
\* the round_num of the iteration the task executes when resumed
NextRoundNum(t) == tasks[t].round_num + 1

\* the loop runs its next round although is_training is False
LoopContinues_IgnoresFlag(t) == NextRoundNum(t) <= tasks[t].rounds

\* `for round_num in range(1, rounds + 1): if not self.is_training: break`
LoopContinues(t) == NextRoundNum(t) <= tasks[t].rounds /\ is_training

\* _training_loop: one iteration, from the loop head to `await asyncio.sleep(2)`
\* (no await in between: the event loop runs nothing else meanwhile)
loop_round(t) ==
    /\ Resumable(t)
    /\ LoopContinues(t)
    /\ \E S \in Selections :
        LET sel == SeqOfSet(S)
            client_updates == [k \in 1..Len(sel) |-> ClientUpdate(sel[k], TrainOutcome(sel[k]))]
            aggregated == StrategyAggregate(current_strategy, client_updates)
        IN /\ current_round' = NextRoundNum(t)
           /\ IF aggregated # EmptyDict
              THEN /\ global_model' = aggregated.parameters
                   /\ global_accuracy' = aggregated.accuracy
                   /\ engine_history' = Append(engine_history,
                          [round |-> NextRoundNum(t), accuracy |-> aggregated.accuracy,
                           participating_clients |-> Len(sel),
                           strategy |-> current_strategy])
              ELSE UNCHANGED <<global_model, global_accuracy, engine_history>>
    /\ tasks' = TasksAfterStep(t, NextRoundNum(t), "sleeping")
    /\ engine_last' = NoCall
    /\ UNCHANGED <<clients, is_ready, is_training, current_strategy, ever_stopped, stopped>>
    /\ UNCHANGED <<serverVars, threadVars, callVars>>

\* _training_loop: an iteration in which FederatedClient.train raises:
\* `except Exception: self.is_training = False`
loop_round_raises(t) ==
    /\ Resumable(t)
    /\ LoopContinues(t)
    /\ current_round' = NextRoundNum(t)
    /\ is_training' = FALSE
    /\ tasks' = TasksAfterStep(t, tasks[t].round_num, "done")
    /\ engine_last' = NoCall
    /\ UNCHANGED <<clients, is_ready, current_strategy, global_accuracy, global_model,
                   engine_history, ever_stopped, stopped>>
    /\ UNCHANGED <<serverVars, threadVars, callVars>>

\* _training_loop: the loop ends (range exhausted, or `break`): self.is_training = False
loop_exit(t) ==
    /\ Resumable(t)
    /\ ~LoopContinues(t)
    /\ is_training' = FALSE
    /\ tasks' = TasksAfterStep(t, tasks[t].round_num, "done")
    /\ engine_last' = NoCall
    /\ UNCHANGED <<clients, is_ready, current_strategy, current_round, global_accuracy,
                   global_model, engine_history, ever_stopped, stopped>>
    /\ UNCHANGED <<serverVars, threadVars, callVars>>

\* ============================================================ specifications
Init == ServerInit /\ ThreadInit /\ EngineInit /\ CallInit

\* FederatedLearningServer driven by one caller, call by call
Next ==
    \/ \E o \in NodeObjs : register_node(o)
    \/ \E o \in NodeObjs, r \in BatchRows, c \in BatchCols : add_training_data(o, r, c)
    \/ start_training_round

Spec == Init /\ [][Next]_vars

\* the batches fed before predictions are asked for: ten labelled rows, five
\* unlabelled rows (n3 is registered but is given no data)
PredictBatches == {<<10, {"f1", "f2", "label"}>>, <<5, {"f1", "f2", "f3"}>>}

\* a prediction is asked of the state a training call left: a second
\* prediction in a row would be computed from the same fields as the first
Unasked == result = NoResult

\* FederatedLearningServer and its nodes with the prediction calls
PredictNext ==
    \/ \E o \in NodeObjs : register_node(o)
    \/ \E o \in {"n1", "n2"}, b \in PredictBatches : add_training_data(o, b[1], b[2])
    \/ start_training_round
    \/ Unasked /\ \E o \in NodeObjs, r \in DataRows, c \in DataCols : predict(o, r, c)
    \/ Unasked /\ \E r \in DataRows, c \in DataCols : get_global_predictions(r, c)
    \/ Unasked /\ \E r \in DataRows, c \in DataCols : evaluate_global_model(r, c)

PredictSpec == Init /\ [][PredictNext]_vars

\* app.py: the nodes are registered at import, before any thread starts
AppServerInit ==
    /\ node = [o \in NodeObjs |-> NewNode(o)]
    /\ nodes = <<[id |-> NodeId("n1"), obj |-> "n1"], [id |-> NodeId("n2"), obj |-> "n2"]>>
    /\ global_model_weights = EmptyDict
    /\ round_number = 0
    /\ training_history = <<>>
    /\ last = NoRound

AppInit == AppServerInit /\ ThreadInit /\ EngineInit /\ CallInit

\* app.py: the monitoring thread feeds the nodes and runs rounds while request
\* handlers read the server
ThreadNext ==
    \/ \E o \in {"n1", "n2"}, r \in BatchRows, c \in BatchCols : add_training_data(o, r, c)
    \/ round_begin
    \/ round_local_train
    \/ round_aggregate
    \/ round_record
    \/ get_fl_nodes

ThreadSpec == AppInit /\ [][ThreadNext]_vars

\* FederatedLearningEngine on its asyncio event loop
EngineNext ==
    \/ initialize
    \/ \E r \in RoundsArgs : start_training(r)
    \/ stop_training
    \/ \E n \in StrategyNames : set_strategy(n)
    \/ \E t \in 1..Len(tasks) : loop_round(t)
    \/ \E t \in 1..Len(tasks) : loop_round_raises(t)
    \/ \E t \in 1..Len(tasks) : loop_exit(t)

EngineSpec == Init /\ [][EngineNext]_vars

\* the engine with its event loop: a task that is created, or whose
\* `await asyncio.sleep(2)` is over, is resumed in the end
EngineFairSpec ==
    EngineSpec /\ \A t \in 1..MaxTasks :
                     WF_vars(loop_exit(t) \/ loop_round_raises(t) \/ loop_round(t))

\* ------------------------------------------- aggregation functions, applied
\* the client_updates put to a strategy: the parameters dict of each update
\* (group key -> value), its num_samples and its accuracy (in percent)
UpdateParams == {[w |-> 1, b |-> 1], [w |-> 2], [b |-> 2]}
UpdateSamples == {100, 300}
ClientUpdateInputs ==
    UNION { { [kind |-> "client_updates",
               updates |-> [i \in 1..n |->
                   [client_id |-> i, parameters |-> ps[i], num_samples |-> ns[i],
                    accuracy |-> 80]]]
              : ps \in [1..n -> UpdateParams], ns \in [1..n -> UpdateSamples] }
            : n \in 0..MaxUpdates }

\* the node_weights put to the functions of fl_ids_core.py: what
\* _get_model_weights returns, with or without feature_importances
WeightVectors == {<<1, 1>>, <<3, 1>>, <<1, 1, 1>>}
WeightsOf(i, v, samples) ==
    IF v = <<>>
    THEN [training_samples |-> samples, node_id |-> i, model_type |-> "isolation_forest"]
    ELSE [feature_importances |-> v, training_samples |-> samples, node_id |-> i,
          model_type |-> "random_forest"]
WeightsInputs ==
    UNION { { [kind |-> "weights_list",
               weights_list |-> [i \in 1..n |-> WeightsOf(i, vs[i], ns[i])]]
              : vs \in [1..n -> WeightVectors \cup {<<>>}], ns \in [1..n -> {10, 30}] }
            : n \in 0..MaxUpdates }

\* the Laplace noise add_noise draws for one update, in units of
\* 1/total_samples, the same on every coordinate
NoiseValues == {-1, 0, 1}

\* `update['parameters'][key]` for a key of the first update that another
\* update has not: KeyError
StrategyRaises(us) ==
    /\ us # <<>>
    /\ \E i \in 1..Len(us) : \E key \in DOMAIN us[1].parameters :
          key \notin DOMAIN us[i].parameters

\* FedAvgStrategy.aggregate, called
fedavg_aggregate ==
    /\ inputs.kind = "client_updates"
    /\ result' = [op |-> "FedAvgStrategy.aggregate",
                  raised |-> StrategyRaises(inputs.updates),
                  ret |-> IF StrategyRaises(inputs.updates) THEN EmptyDict
                          ELSE FedAvgAggregate(inputs.updates)]
    /\ UNCHANGED <<serverVars, threadVars, engineVars, inputs>>

\* FedProxStrategy.aggregate, called
fedprox_aggregate ==
    /\ inputs.kind = "client_updates"
    /\ result' = [op |-> "FedProxStrategy.aggregate",
                  raised |-> StrategyRaises(inputs.updates),
                  ret |-> IF StrategyRaises(inputs.updates) THEN EmptyDict
                          ELSE FedProxAggregate(inputs.updates)]
    /\ UNCHANGED <<serverVars, threadVars, engineVars, inputs>>

\* the mu a FedProxStrategy is built with: 0, the default 0.1, 0.5 and 1
MuValues == {[num |-> 0, den |-> 1], [num |-> MuNum, den |-> MuDen],
             [num |-> 1, den |-> 2], [num |-> 1, den |-> 1]}

\* FedProxStrategy(mu).aggregate, called
fedprox_with_aggregate ==
    /\ inputs.kind = "client_updates"
    /\ \E mu \in MuValues :
          result' = [op |-> "FedProxStrategy(mu).aggregate", mu |-> mu,
                     raised |-> StrategyRaises(inputs.updates),
                     ret |-> IF StrategyRaises(inputs.updates) THEN EmptyDict
                             ELSE FedProxWith(inputs.updates, mu)]
    /\ UNCHANGED <<serverVars, threadVars, engineVars, inputs>>

\* FederatedLearningServer._aggregate_weights, called
aggregate_weights ==
    /\ inputs.kind = "weights_list"
    /\ LET ws == inputs.weights_list
           raises == ws # <<>> /\ AggregateRaises(ws)
       IN result' = [op |-> "_aggregate_weights", raised |-> raises,
                     ret |-> IF raises THEN EmptyDict
                             ELSE AggregateWeights(ws, round_number)]
    /\ UNCHANGED <<serverVars, threadVars, engineVars, inputs>>

\* `if key in ['training_samples', 'node_id', 'model_type']: continue`
MetaKeys == {"training_samples", "node_id", "model_type"}

\* the keys of the first dict that every dict holds (each value a list)
VectorKeys(ws) == {key \in DOMAIN ws[1] \ MetaKeys : AllHave(ws, key)}

\* the lists under a key have not all the same length: np.array / np.sum raises
Ragged(ws, key) == \E i, j \in 1..Len(ws) : Len(ws[i][key]) # Len(ws[j][key])

RECURSIVE SumSquares(_, _)
SumSquares(v, j) == IF j > Len(v) THEN 0 ELSE v[j] * v[j] + SumSquares(v, j + 1)

\* nothing is trimmed
TrimCount_None(n) == 0

\* n_trim = int(len(weights_list) * trim_ratio)
TrimCount(n) == (n * TrimNum) \div TrimDen

\* position (from 1) of update i in np.argsort of the norms; equal norms stay
\* in the order of the list
NormRank(ws, key, i) ==
    1 + Cardinality({j \in 1..Len(ws) :
            \/ SumSquares(ws[j][key], 1) < SumSquares(ws[i][key], 1)
            \/ (SumSquares(ws[j][key], 1) = SumSquares(ws[i][key], 1) /\ j < i)})

\* sorted_indices[n_trim:-n_trim] if n_trim > 0 else sorted_indices
TrimmedIndices(ws, key) ==
    {i \in 1..Len(ws) : LET rank == NormRank(ws, key, i)
                        IN /\ rank > TrimCount(Len(ws))
                           /\ rank <= Len(ws) - TrimCount(Len(ws))}

RECURSIVE SumOver(_, _, _, _)
SumOver(ws, key, j, S) ==
    IF S = {} THEN 0
    ELSE LET i == CHOOSE x \in S : TRUE
         IN ws[i][key][j] + SumOver(ws, key, j, S \ {i})

\* ByzantineFaultTolerance.trim_mean_aggregation; a mean is kept as the exact
\* fraction num/den
TrimMean(ws) ==
    IF ws = <<>> THEN EmptyDict
    ELSE LET kept == [k \in VectorKeys(ws) |-> TrimmedIndices(ws, k)]
         IN [key \in {k \in VectorKeys(ws) : kept[k] # {}} |->
                [j \in 1..Len(ws[1][key]) |->
                    [num |-> SumOver(ws, key, j, kept[key]),
                     den |-> Cardinality(kept[key])]]]

\* ByzantineFaultTolerance.trim_mean_aggregation, called
trim_mean_aggregation ==
    /\ inputs.kind = "weights_list"
    /\ LET ws == inputs.weights_list
           raises == ws # <<>> /\ \E key \in VectorKeys(ws) : Ragged(ws, key)
       IN result' = [op |-> "trim_mean_aggregation", raised |-> raises,
                     ret |-> IF raises THEN EmptyDict ELSE TrimMean(ws)]
    /\ UNCHANGED <<serverVars, threadVars, engineVars, inputs>>

\* sum over the updates of (list[j] * training_samples + noise)
RECURSIVE NoisySum(_, _, _, _, _)
NoisySum(ws, key, j, noise, i) ==
    IF i > Len(ws) THEN 0
    ELSE ws[i][key][j] * ws[i].training_samples + noise[i]
            + NoisySum(ws, key, j, noise, i + 1)

\* SecureAggregation.aggregate_with_privacy; a value is kept as the exact
\* fraction num/den, den = total_samples
PrivacyAggregate(ws, noise) ==
    IF ws = <<>> THEN EmptyDict
    ELSE [key \in VectorKeys(ws) |->
            [j \in 1..Len(ws[1][key]) |->
                [num |-> NoisySum(ws, key, j, noise, 1), den |-> SumSamples(ws, 1)]]]

\* SecureAggregation.aggregate_with_privacy, called
aggregate_with_privacy ==
    /\ inputs.kind = "weights_list"
    /\ \E noise \in [1..Len(inputs.weights_list) -> NoiseValues] :
          LET ws == inputs.weights_list
              raises == ws # <<>> /\ \E key \in VectorKeys(ws) : Ragged(ws, key)
          IN result' = [op |-> "aggregate_with_privacy", raised |-> raises,
                        ret |-> IF raises THEN EmptyDict ELSE PrivacyAggregate(ws, noise)]
    /\ UNCHANGED <<serverVars, threadVars, engineVars, inputs>>

\* the functions that compute from their arguments alone, each applied to
\* arguments drawn at the start
PureInputs == VoteInputs \cup ClientUpdateInputs \cup WeightsInputs

PureInit ==
    /\ ServerInit /\ ThreadInit /\ EngineInit
    /\ inputs \in PureInputs
    /\ result = NoResult

PureNext ==
    \/ ensemble_vote
    \/ fedavg_aggregate
    \/ fedprox_aggregate
    \/ aggregate_weights
    \/ trim_mean_aggregation
    \/ aggregate_with_privacy

PureSpec == PureInit /\ [][PureNext]_vars

\* the updates of one round, as _training_loop passes them to the strategy:
\* up to RoundClients updates, each with the same parameter keys, its own
\* num_samples and its own accuracy (in percent)
RoundParams == {[w |-> 1, b |-> 1], [w |-> 2, b |-> 1]}
RoundSamples == {100, 150, 250}
RoundAccuracies == {80, 85, 90}
RoundUpdateInputs ==
    UNION { { [kind |-> "client_updates",
               updates |-> [i \in 1..n |->
                   [client_id |-> i, parameters |-> ps[i], num_samples |-> ns[i],
                    accuracy |-> as[i]]]]
              : ps \in [1..n -> RoundParams], ns \in [1..n -> RoundSamples],
                as \in [1..n -> RoundAccuracies] }
            : n \in 1..RoundClients }

\* the two strategies, each applied to a list of updates drawn at the start
AverageInit ==
    /\ ServerInit /\ ThreadInit /\ EngineInit
    /\ inputs \in ClientUpdateInputs \cup RoundUpdateInputs
    /\ result = NoResult

AverageNext ==
    \/ fedavg_aggregate
    \/ fedprox_aggregate
    \/ fedprox_with_aggregate

AverageSpec == AverageInit /\ [][AverageNext]_vars

\* ------------------------------------------------- ByzantineFaultTolerance
\* the weights put to ByzantineFaultTolerance: up to MaxWeights dicts, each
\* with a feature_importances list, but for the first or the last, which may
\* be (an isolation_forest) without one. The lists have whole-number norms
\* (5, 6 and 26), so that norms, mean and standard deviation compare exactly
MaxWeights == 6
RobustVectors == {<<3, 4>>, <<0, 6>>, <<10, 24>>}
RobustLists(longest) ==
    UNION { { [kind |-> "weights_list",
               weights_list |-> [i \in 1..n |->
                   WeightsOf(i, IF i = bare THEN <<>> ELSE vs[i], 10)]]
              : vs \in [1..n -> RobustVectors], bare \in {0, 1, n} }
            : n \in 0..longest }
RobustInputs == RobustLists(MaxWeights)

\* len(weights_list) < 3: return []
MinDetect == 3

\* np.linalg.norm(np.array(weights[key]))
Norm(v) ==
    LET squares == SumSquares(v, 1)
    IN CHOOSE r \in 0..squares : r * r = squares

\* magnitudes: the norms of the lists under the key, from update i on
RECURSIVE MagnitudesFrom(_, _, _)
MagnitudesFrom(ws, key, i) ==
    IF i > Len(ws) THEN <<>>
    ELSE <<Norm(ws[i][key])>> \o MagnitudesFrom(ws, key, i + 1)
Magnitudes(ws, key) == MagnitudesFrom(ws, key, 1)

RECURSIVE SumMags(_, _)
SumMags(mags, i) == IF i > Len(mags) THEN 0 ELSE mags[i] + SumMags(mags, i + 1)
RECURSIVE SumSquaredMags(_, _)
SumSquaredMags(mags, i) ==
    IF i > Len(mags) THEN 0 ELSE mags[i] * mags[i] + SumSquaredMags(mags, i + 1)

\* N * (mag - mean_mag), N = len(magnitudes)
Deviation(mags, i) == Len(mags) * mags[i] - SumMags(mags, 1)

\* (N * std_mag)^2, np.std being the population standard deviation
Spread(mags) ==
    Len(mags) * SumSquaredMags(mags, 1) - SumMags(mags, 1) * SumMags(mags, 1)

\* threshold = mean_mag + 1 * std_mag
Exceeds_OneStd(mags, i) ==
    Deviation(mags, i) > 0 /\ Deviation(mags, i) * Deviation(mags, i) > Spread(mags)

\* mag > threshold, threshold = mean_mag + 2 * std_mag, in exact arithmetic
Exceeds(mags, i) ==
    Deviation(mags, i) > 0 /\ Deviation(mags, i) * Deviation(mags, i) > 4 * Spread(mags)

\* mag = mean_mag + 2 * std_mag exactly, std_mag > 0: the floats compared are
\* rounded (np.mean, np.std, the sum), and `mag > threshold` holds or not as
\* the rounding falls (magnitudes 5, 5, 5, 5, 26 give threshold
\* 25.999999999999996, magnitudes 6, 6, 6, 6, 26 give 26.0)
OnThreshold(mags, i) ==
    Deviation(mags, i) > 0 /\ Deviation(mags, i) * Deviation(mags, i) = 4 * Spread(mags)

\* every update above the mean is flagged, whatever the length of the list
DetectByzantine_AboveMean(ws, rounded) ==
    IF ws = <<>> THEN {}
    ELSE {i - 1 : i \in {k \in 1..Len(ws) :
            \E key \in VectorKeys(ws) : Deviation(Magnitudes(ws, key), k) > 0}}

\* ByzantineFaultTolerance.detect_byzantine_nodes: the indices (from 0)
\* returned; `rounded` are the updates for which a comparison on the threshold
\* falls to `mag > threshold`
DetectByzantine(ws, rounded) ==
    IF Len(ws) < MinDetect THEN {}
    ELSE {i - 1 : i \in {k \in 1..Len(ws) :
            \E key \in VectorKeys(ws) :
                LET mags == Magnitudes(ws, key)
                IN \/ Exceeds(mags, k)
                   \/ OnThreshold(mags, k) /\ k \in rounded}}

\* the updates with a magnitude on the threshold under some key
ThresholdCases(ws) ==
    IF Len(ws) < MinDetect THEN {}
    ELSE {k \in 1..Len(ws) :
            \E key \in VectorKeys(ws) :
                LET mags == Magnitudes(ws, key) IN OnThreshold(mags, k)}

\* the detector takes the updates it flags out of the list it was handed
detect_byzantine_nodes_DropsFlagged ==
    /\ inputs.kind = "weights_list"
    /\ \E rounded \in SUBSET ThresholdCases(inputs.weights_list) :
          LET flagged == DetectByzantine(inputs.weights_list, rounded)
          IN /\ result' = [op |-> "detect_byzantine_nodes", raised |-> FALSE,
                           ret |-> flagged]
             /\ inputs' = [inputs EXCEPT !.weights_list =
                              SelectSeq(@, LAMBDA w : w.node_id - 1 \notin flagged)]
    /\ UNCHANGED <<serverVars, threadVars, engineVars>>

\* ByzantineFaultTolerance.detect_byzantine_nodes, called
detect_byzantine_nodes ==
    /\ inputs.kind = "weights_list"
    /\ \E rounded \in SUBSET ThresholdCases(inputs.weights_list) :
          result' = [op |-> "detect_byzantine_nodes", raised |-> FALSE,
                     ret |-> DetectByzantine(inputs.weights_list, rounded)]
    /\ UNCHANGED <<serverVars, threadVars, engineVars, inputs>>

\* the functions of ByzantineFaultTolerance and _aggregate_weights, each
\* applied to a list of weights drawn at the start
RobustInit ==
    /\ ServerInit /\ ThreadInit /\ EngineInit
    /\ inputs \in RobustInputs
    /\ result = NoResult

RobustNext ==
    \/ detect_byzantine_nodes
    \/ trim_mean_aggregation
    \/ aggregate_weights

RobustSpec == RobustInit /\ [][RobustNext]_vars

\* lists of MinDetect to MaxWeights weights of one norm, but for one of a
\* norm far above: the lists of which detect_byzantine_nodes flags an index
OutlierInputs ==
    UNION { { [kind |-> "weights_list",
               weights_list |-> [i \in 1..n |->
                   WeightsOf(i, IF i = out THEN <<10, 24>> ELSE <<3, 4>>, 10)]]
              : out \in 1..n }
            : n \in MinDetect..MaxWeights }

\* every function that is handed a list of updates or of weights, applied
\* one after the other to one and the same list: a list of updates, a short
\* list of weights or a list with an outlier
FrameInit ==
    /\ ServerInit /\ ThreadInit /\ EngineInit
    /\ inputs \in ClientUpdateInputs \cup RobustLists(MaxUpdates) \cup OutlierInputs
    /\ result = NoResult

FrameNext ==
    \/ fedavg_aggregate
    \/ fedprox_aggregate
    \/ fedprox_with_aggregate
    \/ aggregate_weights
    \/ trim_mean_aggregation
    \/ aggregate_with_privacy
    \/ detect_byzantine_nodes

FrameSpec == FrameInit /\ [][FrameNext]_vars

\* app.py builds the FederatedLearningServer, backend/main.py the
\* FederatedLearningEngine: a process runs one of the two coordinators
ServerUnused == ServerInit /\ ThreadInit /\ CallInit
EngineUnused == EngineInit

CoordNext ==
    \/ EngineUnused /\ PredictNext
    \/ ServerUnused /\ EngineNext

CoordSpec == Init /\ [][CoordNext]_vars

\* app.py with its nodes registered, or the engine of backend/main.py
AppUnused == AppServerInit /\ ThreadInit /\ CallInit

BarrierNext ==
    \/ EngineUnused /\ ThreadNext
    \/ AppUnused /\ EngineNext

BarrierSpec == AppInit /\ [][BarrierNext]_vars

\* ===================================================================== claims
\* what local_train returns for the node registered at entry i
Trains(i) == ~LocalTrain(node[nodes[i].obj]).none
TrainableEntries == {i \in 1..Len(nodes) : Trains(i)}
RECURSIVE SumRows(_)
SumRows(S) ==
    IF S = {} THEN 0
    ELSE LET i == CHOOSE x \in S : TRUE
         IN node[nodes[i].obj].rows + SumRows(S \ {i})
RoundStep == last'.op = "start_training_round"
IdRegistered(o) == IndexOfId(nodes, node[o].node_id, 1) # 0

\* C1: in every reachable state the i-th entry of training_history has
\* round = i (1-based): round numbers start at 1 and have no gaps.
C1_RoundNumbersHaveNoGaps ==
    \A i \in 1..Len(training_history) : training_history[i].round = i

\* C2: a start_training_round call in which at least one registered node's
\* local_train returns an update passes exactly the non-failed updates to
\* _aggregate_weights, replaces global_model_weights by the result, appends
\* exactly one round record and returns True.
C2_SuccessfulRound ==
    [][(RoundStep /\ TrainableEntries # {}) =>
         /\ last'.ret = "True"
         /\ Len(last'.passed) = Cardinality(TrainableEntries)
         /\ {last'.passed[k].node_id : k \in 1..Len(last'.passed)}
                = {nodes[i].id : i \in TrainableEntries}
         /\ global_model_weights' = AggregateWeights(last'.passed, round_number')
         /\ Len(training_history') = Len(training_history) + 1
         /\ SubSeq(training_history', 1, Len(training_history)) = training_history]_vars

\* C3: a start_training_round call in which every registered node fails
\* local_train, or with no node registered, returns False; a call that returns
\* False leaves global_model_weights as it was and appends no round record.
C3_EmptyRoundUnrecorded ==
    [][RoundStep =>
         /\ (TrainableEntries = {} => last'.ret = "False")
         /\ (last'.ret = "False" =>
                /\ global_model_weights' = global_model_weights
                /\ training_history' = training_history)]_vars

\* a round returned False (one node only has ever trained, so no round raised)
\* and the call after it succeeded
C3_Witness ==
    /\ last.ret = "True"
    /\ round_number = 2
    /\ Len(training_history) = 1
    /\ training_history[1].round = 2
    /\ Cardinality({o \in NodeObjs : node[o].is_trained}) = 1

\* C4: a start_training_round call that returns False changes no field of the
\* coordinator: registry, global_model_weights, training_history, round_number.
C4_FailedRoundChangesNothing ==
    [][(RoundStep /\ last'.ret = "False") =>
         UNCHANGED <<nodes, global_model_weights, training_history, round_number>>]_vars

\* C5: the round record a successful call appends has total_samples equal to
\* the sum of the rows of the registered nodes whose local_train returned an
\* update, each once, and participating_nodes equal to their number; a node
\* that failed contributes to neither.
C5_TotalSamplesExact ==
    [][(RoundStep /\ last'.ret = "True") =>
         LET e == training_history'[Len(training_history')]
         IN /\ e.total_samples = SumRows(TrainableEntries)
            /\ e.participating_nodes = Cardinality(TrainableEntries)]_vars

\* a recorded round in which one registered node trained and another failed
C5_Witness ==
    /\ last.ret = "True"
    /\ Len(nodes) = 2
    /\ Len(last.passed) = 1
    /\ training_history[Len(training_history)].total_samples = 15

\* C6: every update passed to _aggregate_weights has training_samples > 0.
C6_NoZeroSampleUpdate ==
    \A k \in 1..Len(last.passed) : last.passed[k].training_samples > 0

\* two updates reached an aggregation
C6_Witness == Len(last.passed) = 2

\* C7: register_node with a node whose node_id is already registered leaves
\* the registry as it was.
C7_DuplicateIdRejected ==
    [][\A o \in NodeObjs : (register_node(o) /\ IdRegistered(o)) => nodes' = nodes]_vars

\* a step that runs a round of some _training_loop task
EngineRoundStep == \E t \in 1..Len(tasks) : loop_round(t) \/ loop_round_raises(t)

\* C8: once stop_training has been called, no later step, whatever calls come
\* in between (a later start_training included), runs another round or
\* appends another round record.
C8_StoppedIsTerminal ==
    [][ever_stopped =>
         /\ ~EngineRoundStep
         /\ engine_history' = engine_history]_vars

\* C8 as amended: from a stop_training call until the next start_training
\* call that takes effect, no round runs, no round record is appended and
\* current_round keeps its value.
C8_StoppedUntilRestarted ==
    [][(stopped /\ stopped') =>
         /\ ~EngineRoundStep
         /\ engine_history' = engine_history
         /\ current_round' = current_round]_vars

\* stop_training was called while a loop that has recorded a round, and has
\* rounds left, sleeps between two rounds
C8_Witness ==
    /\ stopped
    /\ engine_history # <<>>
    /\ \E t \in 1..Len(tasks) :
          tasks[t].state = "sleeping" /\ tasks[t].round_num < tasks[t].rounds

\* the history holds a record of round r (r = 0: no round yet)
HasRecord(r) == r = 0 \/ \E i \in 1..Len(training_history) : training_history[i].round = r

\* C9: whatever a reader observes while a round runs, the round counter it
\* read and the round of the global model it read both have their record in
\* the round history.
C9_AggregationAtomic ==
    /\ HasRecord(observed.federated_rounds)
    /\ observed.global_model_info # EmptyDict => HasRecord(observed.global_model_info.round)

\* C10: a set_strategy call with a name that is not a registered strategy
\* raises ValueError and changes no field of the engine and no training loop.
C10_UnknownStrategyRejected ==
    [][(engine_last'.op = "set_strategy" /\ engine_last'.arg \notin Strategies) =>
         /\ engine_last'.ret = "ValueError"
         /\ UNCHANGED <<engineFields, tasks>>]_vars

\* an unregistered name was passed while a training loop was running under a
\* strategy other than the initial one, with a round recorded
C10_Witness ==
    /\ engine_last.op = "set_strategy"
    /\ engine_last.arg \notin Strategies
    /\ engine_last.ret = "ValueError"
    /\ is_training
    /\ current_strategy = "FedProx"
    /\ engine_history # <<>>

\* the client_updates a round can collect: one update per selected client
RoundUpdates ==
    {[k \in 1..Cardinality(S) |-> ClientUpdate(SeqOfSet(S)[k], TrainOutcome(SeqOfSet(S)[k]))]
        : S \in Selections}

\* C11: a set_strategy call with a registered name sets current_strategy to it
\* and changes nothing else; a round that records an entry records the
\* strategy active when the round started and replaces the global model by
\* that strategy's aggregate of the round's updates; the entries recorded
\* before any step stay as they were.
C11_SetStrategyFrame ==
    [][/\ (engine_last'.op = "set_strategy" /\ engine_last'.arg \in Strategies) =>
            /\ current_strategy' = engine_last'.arg
            /\ UNCHANGED <<clients, is_ready, is_training, current_round, global_accuracy,
                           global_model, engine_history, tasks>>
       /\ Len(engine_history') >= Len(engine_history)
       /\ SubSeq(engine_history', 1, Len(engine_history)) = engine_history
       /\ Len(engine_history') > Len(engine_history) =>
            /\ Len(engine_history') = Len(engine_history) + 1
            /\ engine_history'[Len(engine_history')].strategy = current_strategy
            /\ current_strategy' = current_strategy
            /\ IF current_strategy = "FedProx"
               THEN \E us \in RoundUpdates : global_model' = FedProxAggregate(us).parameters
               ELSE \E us \in RoundUpdates : global_model' = FedAvgAggregate(us).parameters]_vars

\* the strategy was changed between the two rounds of one training loop: the
\* first record names FedAvg, the second FedProx, and the global model is the
\* FedProx aggregate of a selection that holds client 1
C11_Witness ==
    /\ Len(tasks) = 1
    /\ Len(engine_history) = 2
    /\ engine_history[1].strategy = "FedAvg"
    /\ engine_history[2].strategy = "FedProx"
    /\ engine_history[2].round = 2
    /\ global_model["w"].num = 4 * global_model["w"].den

\* C12: global_model_weights changes only in a start_training_round call
\* that returns True, which sets it to the aggregate of the updates collected;
\* the engine's global_model changes only in a round that records an entry.
\* Every other step (register_node, add_training_data, predict,
\* get_global_predictions, evaluate_global_model, set_strategy, stop_training,
\* a round that fails) leaves both as they were.
C12_GlobalModelWriters ==
    [][/\ global_model_weights' # global_model_weights =>
            /\ last'.op = "start_training_round"
            /\ last'.ret = "True"
            /\ global_model_weights' = AggregateWeights(last'.passed, round_number')
       /\ global_model' # global_model =>
            /\ EngineRoundStep
            /\ Len(engine_history') = Len(engine_history) + 1]_vars

\* a round failed after a round had set the global model
C12_Witness ==
    /\ last.op = "start_training_round"
    /\ last.ret = "False"
    /\ global_model_weights # EmptyDict
    /\ Len(training_history) = 1

\* C13: in a start_training_round call the loop starts at the first
\* registered node, each of its steps calls local_train on the next node,
\* once, and keeps what it returned, and the call goes on to aggregate (or to
\* return) only when the loop has passed the last registered node; a round
\* of the engine aggregates one update of each selected client.
C13_BarrierBeforeAggregation ==
    [][/\ (pc = "idle" /\ pc' = "train") => (idx' = 1 /\ node_weights' = <<>>)
       /\ (pc = "train" /\ pc' = "train"
             /\ (idx' # idx \/ node' # node \/ node_weights' # node_weights)) =>
            /\ idx <= Len(nodes)
            /\ idx' = idx + 1
            /\ LET o == nodes[idx].obj
                   t == LocalTrain(node[o])
               IN /\ node' = [node EXCEPT ![o] = t.node]
                  /\ node_weights' =
                         IF t.none THEN node_weights ELSE Append(node_weights, t.weights)
       /\ (pc = "train" /\ pc' # "train") =>
            /\ idx = Len(nodes) + 1
            /\ node' = node /\ node_weights' = node_weights
       /\ (EngineRoundStep /\ engine_history' # engine_history) =>
            /\ engine_history'[Len(engine_history')].participating_clients
                   = Min(RoundClients, clients)
            /\ global_accuracy'.den = Min(RoundClients, clients)
            /\ \E us \in RoundUpdates :
                   global_model' = StrategyAggregate(current_strategy, us).parameters]_vars

\* a round aggregated after its loop had trained both registered nodes
C13_Witness ==
    /\ pc = "record"
    /\ idx = Len(nodes) + 1
    /\ Len(node_weights) = 2
    /\ \A i \in 1..Len(nodes) : node[nodes[i].obj].is_trained

\* the update the last round collected from the node registered under id
PassedFrom(l, id) == {k \in 1..Len(l.passed) : l.passed[k].node_id = id}

\* C14: in a round, a registered node with fewer than 10 rows yields no
\* update and is the same after its local_train as before (is_trained,
\* training_history, local_data and the rest); a node with exactly 10 rows
\* whose fit does not raise yields an update.
C14_InsufficientData ==
    [][RoundStep =>
         \A i \in 1..Len(nodes) :
            LET o == nodes[i].obj
            IN /\ node[o].rows < MinSamples =>
                    /\ node'[o] = node[o]
                    /\ PassedFrom(last', nodes[i].id) = {}
               /\ (node[o].rows = MinSamples /\ ~FitRaises(node[o])) =>
                    /\ PassedFrom(last', nodes[i].id) # {}
                    /\ node'[o].is_trained]_vars

\* a round in which a registered node held 5 rows and another exactly 10
C14_Witness ==
    /\ last.op = "start_training_round"
    /\ Len(last.passed) = 1
    /\ \E i, j \in 1..Len(nodes) :
          /\ node[nodes[i].obj].rows = 5
          /\ ~node[nodes[i].obj].is_trained
          /\ node[nodes[j].obj].rows = MinSamples
          /\ node[nodes[j].obj].is_trained

\* C15: in a round, the local_train of a registered node yields an update if
\* and only if it appends one training_history entry, and then is_trained is
\* True and the update's training_samples is the number of rows the node
\* holds; a local_train that yields no update, for too few rows or for an
\* error of the fit, leaves is_trained and training_history as they were.
C15_UpdateIffTrained ==
    [][RoundStep =>
         \A i \in 1..Len(nodes) :
            LET o == nodes[i].obj
                got == PassedFrom(last', nodes[i].id)
            IN /\ Cardinality(got) <= 1
               /\ got # {} <=>
                    Len(node'[o].training_history) = Len(node[o].training_history) + 1
               /\ got # {} =>
                    /\ node'[o].is_trained
                    /\ SubSeq(node'[o].training_history, 1, Len(node[o].training_history))
                           = node[o].training_history
                    /\ \A k \in got : last'.passed[k].training_samples = node'[o].rows
                    /\ node'[o].rows = node[o].rows
               /\ got = {} =>
                    /\ node'[o].is_trained = node[o].is_trained
                    /\ node'[o].training_history = node[o].training_history]_vars

\* a round in which one registered node trained for the second time and the
\* other, trained before, failed on the fit
C15_Witness ==
    /\ last.op = "start_training_round"
    /\ Len(last.passed) = 1
    /\ \E i, j \in 1..Len(nodes) :
          /\ Len(node[nodes[i].obj].training_history) = 2
          /\ node[nodes[j].obj].is_trained
          /\ Len(node[nodes[j].obj].training_history) = 1
          /\ node[nodes[j].obj].rows >= MinSamples
          /\ FitRaises(node[nodes[j].obj])

\* C16: predict on a node that is not trained returns no label and changes
\* nothing; predict on a trained node, for a frame with the features its
\* model was fitted on, returns one label per row of the frame.
C16_PredictNeedsTraining ==
    [][result'.op = "predict" =>
         LET n == node[result'.obj]
         IN /\ UNCHANGED <<node, nodes, global_model_weights, round_number, training_history>>
            /\ ~n.is_trained => result'.ret = <<>>
            /\ (n.is_trained /\ Cardinality(DataFeatures(result'.cols)) = n.model_features) =>
                   Len(result'.ret) = result'.rows]_vars

\* C18: get_global_predictions returns [] and evaluate_global_model {} when
\* no registered node is trained; every vote counted comes from a registered
\* node that is trained and is a non-empty prediction; neither call changes
\* the coordinator or a node.
C18_OnlyTrainedNodesVote ==
    [][result'.op \in {"get_global_predictions", "evaluate_global_model"} =>
         /\ UNCHANGED <<node, nodes, global_model_weights, round_number, training_history>>
         /\ (\A i \in 1..Len(nodes) : ~node[nodes[i].obj].is_trained) =>
                IF result'.op = "get_global_predictions"
                THEN result'.ret = <<>>
                ELSE result'.ret = EmptyDict
         /\ \A k \in 1..Len(result'.votes) :
                /\ result'.votes[k].labels # <<>>
                /\ \E i \in 1..Len(nodes) :
                      /\ nodes[i].id = result'.votes[k].node_id
                      /\ node[nodes[i].obj].is_trained]_vars

\* an ensemble prediction over two registered nodes of which one is trained
C18_Witness ==
    /\ result.op = "get_global_predictions"
    /\ Len(nodes) = 2
    /\ Len(result.votes) = 1
    /\ Len(result.ret) = 2
    /\ \E i \in 1..Len(nodes) : ~node[nodes[i].obj].is_trained

\* the 1-votes and the votes on row j of the predictions
Ones(predictions, j) == Cardinality({i \in 1..Len(predictions) : predictions[i].labels[j] = 1})

\* C17: the ensemble label of a row is 1 if and only if the 1-votes on it are
\* strictly more than half of the votes, else 0; a tie gives 0.
C17_StrictMajority ==
    result.op = "ensemble_vote" =>
        /\ Len(result.ret) = Len(inputs.predictions[1].labels)
        /\ \A j \in 1..Len(result.ret) :
              /\ result.ret[j] \in {0, 1}
              /\ result.ret[j] = 1 <=>
                    2 * Ones(inputs.predictions, j) > Len(inputs.predictions)

\* four nodes voted [1,1,0,0] on the first row and [1,1,1,0] on the second
C17_Witness ==
    /\ result.op = "ensemble_vote"
    /\ Len(inputs.predictions) = 4
    /\ [i \in 1..4 |-> inputs.predictions[i].labels] = <<<<1, 1>>, <<1, 1>>, <<0, 1>>, <<0, 0>>>>
    /\ result.ret = <<0, 1>>

\* the list of updates the aggregation function was called with
InputList ==
    IF inputs.kind = "client_updates" THEN inputs.updates
    ELSE IF inputs.kind = "weights_list" THEN inputs.weights_list
    ELSE <<>>
AggregationOps ==
    {"FedAvgStrategy.aggregate", "FedProxStrategy.aggregate", "_aggregate_weights",
     "trim_mean_aggregation", "aggregate_with_privacy"}

\* C19: FedAvgStrategy.aggregate, FedProxStrategy.aggregate,
\* _aggregate_weights, trim_mean_aggregation and aggregate_with_privacy,
\* called with an empty list, raise nothing and return the empty dict.
C19_EmptyAggregation ==
    (result.op \in AggregationOps /\ InputList = <<>>) =>
        (~result.raised /\ result.ret = EmptyDict)

\* FedAvgStrategy.aggregate was called with an empty list
C19_Witness ==
    /\ result.op = "FedAvgStrategy.aggregate"
    /\ inputs.kind = "client_updates"
    /\ inputs.updates = <<>>
    /\ result.ret = EmptyDict

\* the parameter keys every update of the list holds
CommonKeys(us) == {key \in {"w", "b"} : \A i \in 1..Len(us) : key \in DOMAIN us[i].parameters}

\* C20: called with a non-empty list, FedAvgStrategy.aggregate raises nothing
\* and returns a value for exactly the parameter keys that every update
\* holds, whichever update lacks the others; _aggregate_weights returns
\* feature_importances only if every update holds it, and raises nothing
\* when an update lacks it.
C20_IntersectionOfKeys ==
    /\ (result.op = "FedAvgStrategy.aggregate" /\ InputList # <<>>) =>
          /\ ~result.raised
          /\ DOMAIN result.ret.parameters = CommonKeys(InputList)
    /\ (result.op = "_aggregate_weights" /\ InputList # <<>>
          /\ ~AllHave(InputList, "feature_importances")) =>
          /\ ~result.raised
          /\ "feature_importances" \notin DOMAIN result.ret

\* sums and extremes over the updates of a list, taken field by field
RECURSIVE SumOfSamples(_)
SumOfSamples(us) ==
    IF us = <<>> THEN 0 ELSE Head(us).num_samples + SumOfSamples(Tail(us))
RECURSIVE SumOfAccuracies(_)
SumOfAccuracies(us) ==
    IF us = <<>> THEN 0 ELSE Head(us).accuracy + SumOfAccuracies(Tail(us))
RECURSIVE SumOfWeighted(_, _)
SumOfWeighted(us, key) ==
    IF us = <<>> THEN 0
    ELSE Head(us).parameters[key] * Head(us).num_samples + SumOfWeighted(Tail(us), key)
MinAccuracy(us) ==
    CHOOSE a \in {us[i].accuracy : i \in 1..Len(us)} :
        \A i \in 1..Len(us) : a <= us[i].accuracy
MaxAccuracy(us) ==
    CHOOSE a \in {us[i].accuracy : i \in 1..Len(us)} :
        \A i \in 1..Len(us) : a >= us[i].accuracy

\* C21: what FedAvgStrategy.aggregate returns for a non-empty list: num_samples
\* is the sum of the updates' num_samples; every parameter is the sum of the
\* updates' values, each weighted by num_samples / total; accuracy is the
\* unweighted mean of the updates' accuracies, hence between the smallest and
\* the largest of them; num_samples 100/150/250 with accuracies 80/85/90 give
\* accuracy 85 and num_samples 500.
C21_PlainAverageFields ==
    (result.op = "FedAvgStrategy.aggregate" /\ InputList # <<>> /\ ~result.raised) =>
        LET us == InputList
            ret == result.ret
        IN /\ ret.num_samples = SumOfSamples(us)
           /\ DOMAIN ret.parameters = DOMAIN us[1].parameters
           /\ \A key \in DOMAIN ret.parameters :
                 ret.parameters[key].num * SumOfSamples(us)
                    = SumOfWeighted(us, key) * ret.parameters[key].den
           /\ ret.accuracy.num * Len(us) = SumOfAccuracies(us) * ret.accuracy.den
           /\ ret.accuracy.num >= MinAccuracy(us) * ret.accuracy.den
           /\ ret.accuracy.num <= MaxAccuracy(us) * ret.accuracy.den
           /\ ([i \in 1..Len(us) |-> <<us[i].num_samples, us[i].accuracy>>]
                  = << <<100, 80>>, <<150, 85>>, <<250, 90>> >>) =>
                 /\ ret.accuracy.num = 85 * ret.accuracy.den
                 /\ ret.num_samples = 500

\* FedAvgStrategy.aggregate was called with updates of 100, 150 and 250
\* samples, accuracies 80, 85 and 90 and different parameter values
C21_Witness ==
    /\ result.op = "FedAvgStrategy.aggregate"
    /\ ~result.raised
    /\ Len(InputList) = 3
    /\ [i \in 1..3 |-> <<InputList[i].num_samples, InputList[i].accuracy>>]
          = << <<100, 80>>, <<150, 85>>, <<250, 90>> >>
    /\ InputList[1].parameters.w # InputList[3].parameters.w
    /\ result.ret.num_samples = 500
    /\ result.ret.accuracy = [num |-> 255, den |-> 3]

\* the mu of the strategy that was called
MuOfCall == IF result.op = "FedProxStrategy.aggregate"
            THEN [num |-> MuNum, den |-> MuDen] ELSE result.mu
ProxOps == {"FedProxStrategy.aggregate", "FedProxStrategy(mu).aggregate"}
\* every update of the list holds the same value under the key
SameValues(us, key) == \A i \in 1..Len(us) : us[i].parameters[key] = us[1].parameters[key]

\* C22: for a non-empty list FedProxStrategy.aggregate returns, under every
\* key, (1 - mu) * W + mu * R, with W the num_samples-weighted average of the
\* updates' values and R the value of the first update; with one update, or
\* with the same value in every update, it returns that value whatever mu is.
C22_ProximalAverage ==
    (result.op \in ProxOps /\ InputList # <<>> /\ ~result.raised) =>
        LET us == InputList
            ret == result.ret
            mu == MuOfCall
            total == SumOfSamples(us)
        IN /\ DOMAIN ret.parameters = DOMAIN us[1].parameters
           /\ \A key \in DOMAIN ret.parameters :
                 /\ ret.parameters[key].num * (total * mu.den)
                       = ret.parameters[key].den
                            * ((mu.den - mu.num) * SumOfWeighted(us, key)
                                 + mu.num * us[1].parameters[key] * total)
                 /\ (Len(us) = 1 \/ SameValues(us, key)) =>
                       ret.parameters[key].num
                          = us[1].parameters[key] * ret.parameters[key].den

\* FedProxStrategy(0.5).aggregate was called with three updates whose first
\* value differs from the weighted average, and the result lies between them
C22_Witness ==
    /\ result.op = "FedProxStrategy(mu).aggregate"
    /\ result.mu = [num |-> 1, den |-> 2]
    /\ ~result.raised
    /\ Len(InputList) = 3
    /\ ~SameValues(InputList, "w")
    /\ SameValues(InputList, "b")
    /\ result.ret.parameters.w.num # InputList[1].parameters.w * result.ret.parameters.w.den
    /\ result.ret.parameters.w.num * SumOfSamples(InputList)
          # SumOfWeighted(InputList, "w") * result.ret.parameters.w.den
    /\ result.ret.parameters.b.num = result.ret.parameters.b.den

\* the squared norm of update i's list under the key
NormSq(ws, key, i) == SumSquares(ws[i][key], 1)

\* S is what is left of the N updates when t of lowest norm and t of highest
\* norm are taken away
KeptAfterTrim(ws, key, S, t) ==
    /\ Cardinality(S) = Len(ws) - 2 * t
    /\ \E L \in SUBSET ((1..Len(ws)) \ S) :
          LET H == ((1..Len(ws)) \ S) \ L
          IN /\ Cardinality(L) = t
             /\ Cardinality(H) = t
             /\ \A l \in L : \A k \in S \cup H : NormSq(ws, key, l) <= NormSq(ws, key, k)
             /\ \A h \in H : \A k \in S \cup L : NormSq(ws, key, h) >= NormSq(ws, key, k)

\* the sum over the updates of S of coordinate j of the list under the key
RECURSIVE SumCoordinate(_, _, _, _)
SumCoordinate(ws, key, j, S) ==
    IF S = {} THEN 0
    ELSE LET i == CHOOSE x \in S : \A y \in S : x <= y
         IN ws[i][key][j] + SumCoordinate(ws, key, j, S \ {i})

\* update i has a norm above that of every other update
SingleExtreme(ws, key, i) ==
    \A k \in (1..Len(ws)) \ {i} : NormSq(ws, key, i) > NormSq(ws, key, k)

\* C23: for N updates trim_mean_aggregation (trim_ratio 0.2) returns, under
\* every key all updates hold, the unweighted mean of the N - 2 * floor(N / 5)
\* updates left when floor(N / 5) of lowest norm and floor(N / 5) of highest
\* norm are taken away; with N = 5 one update goes at each end, and an update
\* whose norm is above all others is not among those averaged.
C23_TrimmedMean ==
    (result.op = "trim_mean_aggregation" /\ InputList # <<>> /\ ~result.raised) =>
        LET ws == InputList
            N == Len(ws)
            t == N \div 5
        IN /\ DOMAIN result.ret = VectorKeys(ws)
           /\ \A key \in VectorKeys(ws) :
                \E S \in SUBSET (1..N) :
                   /\ KeptAfterTrim(ws, key, S, t)
                   /\ N = 5 => Cardinality(S) = 3
                   /\ \A i \in 1..N : (N = 5 /\ SingleExtreme(ws, key, i)) => i \notin S
                   /\ \A j \in 1..Len(ws[1][key]) :
                         result.ret[key][j].num * Cardinality(S)
                            = SumCoordinate(ws, key, j, S) * result.ret[key][j].den

\* trim_mean_aggregation was called with five updates, the second of a norm
\* above the others, the others of two different norms, and returned the
\* mean of three of the other four
C23_Witness ==
    /\ result.op = "trim_mean_aggregation"
    /\ Len(InputList) = 5
    /\ VectorKeys(InputList) = {"feature_importances"}
    /\ SingleExtreme(InputList, "feature_importances", 2)
    /\ \E i \in {1, 3, 4, 5} : InputList[i].feature_importances = <<0, 6>>
    /\ \E i \in {1, 3, 4, 5} : InputList[i].feature_importances = <<3, 4>>
    /\ \A j \in 1..2 : result.ret.feature_importances[j].den = 3
    /\ result.ret.feature_importances[1].num < 10

\* C24: called with 0, 1 or 2 updates, whatever they hold,
\* detect_byzantine_nodes returns no index.
C24_FewUpdatesNoFlag ==
    (result.op = "detect_byzantine_nodes" /\ Len(InputList) < 3) => result.ret = {}

\* detect_byzantine_nodes was called with two updates of different norms and
\* returned no index
C24_Witness ==
    /\ result.op = "detect_byzantine_nodes"
    /\ Len(InputList) = 2
    /\ VectorKeys(InputList) = {"feature_importances"}
    /\ NormSq(InputList, "feature_importances", 1) < NormSq(InputList, "feature_importances", 2)
    /\ result.ret = {}

\* C25: called with five updates, the first four of clustered norms (5 and
\* 6) and the fifth of a norm far above them (26), detect_byzantine_nodes
\* returns the index of the fifth (4, counted from 0).
C25_OutlierAmongFiveFlagged ==
    (/\ result.op = "detect_byzantine_nodes"
     /\ Len(InputList) = 5
     /\ VectorKeys(InputList) = {"feature_importances"}
     /\ {NormSq(InputList, "feature_importances", i) : i \in 1..4} = {25, 36}
     /\ NormSq(InputList, "feature_importances", 5) = 676)
        => 4 \in result.ret

\* update i (counted from 1) lies at least / more than two population
\* standard deviations above the mean of the norms under the key:
\* N * norm - sum > 0 and (N * norm - sum)^2 >= (>) 4 * (N * sum of squares - sum^2)
AtLeastTwoStd(ws, key, i) ==
    LET mags == Magnitudes(ws, key)
        N == Len(ws)
        d == N * mags[i] - SumMags(mags, 1)
    IN d > 0 /\ d * d >= 4 * (N * SumSquaredMags(mags, 1) - SumMags(mags, 1) * SumMags(mags, 1))
MoreThanTwoStd(ws, key, i) ==
    LET mags == Magnitudes(ws, key)
        N == Len(ws)
        d == N * mags[i] - SumMags(mags, 1)
    IN d > 0 /\ d * d > 4 * (N * SumSquaredMags(mags, 1) - SumMags(mags, 1) * SumMags(mags, 1))

UpdateReaders ==
    AggregationOps \cup {"FedProxStrategy(mu).aggregate", "detect_byzantine_nodes"}

\* C26: FedAvgStrategy.aggregate, FedProxStrategy.aggregate,
\* _aggregate_weights, trim_mean_aggregation, aggregate_with_privacy and
\* detect_byzantine_nodes leave every update of the list they are handed as
\* it was (ids, sample counts, parameter vectors); and after
\* detect_byzantine_nodes has returned an index, an aggregation of the same
\* list still counts every update of it: _aggregate_weights reports all as
\* participating_nodes and all their samples, trim_mean_aggregation averages
\* N - 2 * floor(N / 5) of them, aggregate_with_privacy weights by the samples
\* of all.
C26_UpdatesReadOnly ==
    [][/\ result'.op \in UpdateReaders => inputs' = inputs
       /\ (result.op = "detect_byzantine_nodes" /\ result.ret # {} /\ ~result'.raised) =>
             LET N == Len(InputList)
             IN /\ result'.op = "_aggregate_weights" =>
                      /\ result'.ret.participating_nodes = N
                      /\ result'.ret.total_samples = 10 * N
                /\ result'.op = "trim_mean_aggregation" =>
                      \A j \in 1..2 :
                         result'.ret.feature_importances[j].den = N - 2 * (N \div 5)
                /\ result'.op = "aggregate_with_privacy" =>
                      \A j \in 1..2 :
                         result'.ret.feature_importances[j].den = 10 * N]_vars

\* detect_byzantine_nodes has returned the index of the last of six updates,
\* and the list still holds the six
C26_Witness ==
    /\ result.op = "detect_byzantine_nodes"
    /\ result.ret = {5}
    /\ Len(InputList) = 6
    /\ InputList[6].feature_importances = <<10, 24>>
    /\ \A i \in 1..5 : InputList[i].feature_importances = <<3, 4>>

\* the _training_loop tasks that, resumed now, execute another round
LoopsGoingOn == {t \in 1..Len(tasks) : Resumable(t) /\ LoopContinues(t)}

\* a start_training call
StartStep == \E r \in RoundsArgs : start_training(r)

\* C27: start_training changes nothing when is_training is set or the engine
\* is not ready, and in no state, whatever start_training and stop_training
\* calls fall into the sleep of a loop, is there more than one _training_loop
\* task that still goes on to execute rounds.
C27_OneTrainingLoop ==
    [][/\ (StartStep /\ StartIgnored) => (is_training' = is_training /\ tasks' = tasks)
       /\ Cardinality(LoopsGoingOn') <= 1]_vars

\* task t has ended
LoopEnded(t) == t <= Len(tasks) /\ tasks[t].state = "done"

\* the step that ends task t with every one of its rounds run, no
\* stop_training having been called since the task was started
CompletesUninterrupted(t) ==
    /\ loop_exit(t)
    /\ t = Len(tasks)
    /\ ~stopped
    /\ tasks[t].round_num = tasks[t].rounds

\* no loop runs more rounds than it was started for
C28_AtMostRRounds == \A t \in 1..Len(tasks) : tasks[t].round_num <= tasks[t].rounds

\* every loop that was started ends
C28_EveryLoopEnds == \A t \in 1..MaxTasks : (t <= Len(tasks)) ~> LoopEnded(t)

\* the step that ends a loop leaves is_training False
C28_EndsWithFlagCleared ==
    [][\A t \in 1..Len(tasks) : (~LoopEnded(t) /\ LoopEnded(t)') => ~is_training']_vars

\* a loop that ends uninterrupted leaves current_round at its number of rounds
C28_CompletedRoundIsR ==
    [][\A t \in 1..Len(tasks) :
          CompletesUninterrupted(t) => current_round' = tasks[t].rounds]_vars

\* C28: a loop started by start_training(rounds) runs at most `rounds` rounds
\* and, the event loop resuming every task in the end, ends, in a state in
\* which is_training is False, whether it ran all its rounds, saw
\* stop_training at the head of a round or had a round raise; when it ran all
\* its rounds with no stop_training since it was started, current_round is
\* `rounds` when it ends.
C28_SessionTerminates ==
    /\ []C28_AtMostRRounds
    /\ C28_EveryLoopEnds
    /\ C28_EndsWithFlagCleared
    /\ C28_CompletedRoundIsR

\* the last entry of training_history
LastRecord == training_history[Len(training_history)]

\* C29: after any sequence of whole register_node, add_training_data and
\* start_training_round calls: while training_history is empty,
\* global_model_weights is the empty dict; once it is not, global_model_weights
\* holds the round, the total_samples and the participating_nodes of the last
\* entry of training_history.
C29_GlobalModelMatchesHistory ==
    IF training_history = <<>>
    THEN global_model_weights = EmptyDict
    ELSE /\ {"round", "total_samples", "participating_nodes"}
               \subseteq DOMAIN global_model_weights
         /\ global_model_weights.round = LastRecord.round
         /\ global_model_weights.total_samples = LastRecord.total_samples
         /\ global_model_weights.participating_nodes = LastRecord.participating_nodes

\* a round was recorded, and the round after it brought nothing (no update,
\* or an aggregation that raised): the global model is still that of the
\* recorded round
C29_Witness ==
    /\ training_history # <<>>
    /\ LastRecord.round < round_number
    /\ last.op = "start_training_round"
    /\ last.ret # "True"
    /\ global_model_weights.round = LastRecord.round
    /\ global_model_weights.participating_nodes = 2

====
